---- MODULE Spec2Model ----
(***************************************************************************)
(* Monte-Carlo comparison of the d-separation statements of a true graph   *)
(* and an estimated graph: a model of src/graphs_py/gc_one_file.py.        *)
(*                                                                         *)
(* The script is one straight-line run: load two graphs, build the         *)
(* predictor list, compute the cardinality weights, sample mc trials,      *)
(* count the four confusion counters and derive the two totals.  A Python  *)
(* exception at any line ends the run (pc = "aborted").                    *)
(***************************************************************************)
EXTENDS Integers, Sequences, FiniteSets, TLC

\* Trial budget of the model.  The script sets mc = 1000 (line 69); the
\* model runs the same loops with a small budget.
mc == 3

\* Largest number of predictors for which the weight loop is run on its own.
MaxN == 14

(***************************************************************************)
(* Python values                                                           *)
(***************************************************************************)

\* Order of str values under Python's "<" for the node names used here.
Rank(s) ==
  CASE s = "A" -> 1 [] s = "B" -> 2 [] s = "C" -> 3 [] s = "D" -> 4
    [] s = "Y" -> 5 [] OTHER -> 6

SetOf(list) == {list[j] : j \in 1..Len(list)}

\* list.sort(): insertion of each element into the sorted prefix.
RECURSIVE SortInsert(_, _)
SortInsert(sorted, x) ==
  IF sorted = <<>> THEN <<x>>
  ELSE IF Rank(x) < Rank(Head(sorted)) THEN <<x>> \o sorted
  ELSE <<Head(sorted)>> \o SortInsert(Tail(sorted), x)

RECURSIVE SortFrom(_, _)
SortFrom(list, acc) ==
  IF list = <<>> THEN acc ELSE SortFrom(Tail(list), SortInsert(acc, Head(list)))

\* A list left in insertion order (the sort skipped).
SortListUnsorted(list) == list

SortList(list) == SortFrom(list, <<>>)

\* list.remove(x): drops the first occurrence of x (x is in the list).
RECURSIVE Remove(_, _)
Remove(list, x) ==
  IF list = <<>> THEN <<>>
  ELSE IF Head(list) = x THEN Tail(list)
  ELSE <<Head(list)>> \o Remove(Tail(list), x)

\* A Python object, by type and value; "x is True" holds of the bool True only.
PyList(v) == [type |-> "list", val |-> v]
PyBool(v) == [type |-> "bool", val |-> v]
PyIs(a, b) == a.type = b.type /\ a.val = b.val

\* The outcome of a call: a value, or the exception it raised.
Ok(v) == [err |-> "", val |-> v]
Raise(e, v) == [err |-> e, val |-> v]

(***************************************************************************)
(* Graphs: nodes in insertion order, edges as (tail, head) pairs.          *)
(***************************************************************************)
Graph(nodes, edges) == [nodes |-> nodes, edges |-> edges]

Chain4 == {<<"A", "B">>, <<"B", "C">>, <<"C", "D">>}
Tail3 == {<<"B", "C">>, <<"C", "D">>}

Graphs2 == {Graph(<<"D", "A">>, E) : E \in SUBSET {<<"A", "D">>}}
GraphAB == Graph(<<"B", "A">>, {<<"A", "B">>})
Graphs3 ==
  {Graph(<<"B", "D", "A">>, E) :
     E \in SUBSET {<<"A", "B">>, <<"A", "D">>, <<"B", "D">>}}
Graphs4 ==
  {Graph(<<"C", "A", "D", "B">>, E) :
     E \in {Chain4, Tail3, Tail3 \cup {<<"A", "D">>}}}

\* The pickled graphs a run may load, and the --target values it may get.
Graphs == Graphs2 \cup {GraphAB} \cup Graphs3 \cup Graphs4
Targets == {"A", "D", "Y"}

(***************************************************************************)
(* Lines 40-47: the evaluation table.  results_py/graph_evaluation.csv is  *)
(* read if it is there; if the read fails the table is an empty frame.     *)
(***************************************************************************)
Undefined == [num |-> 0, den |-> 0]
PriorRow ==
  [graph |-> "hepar", target_node |-> "y", d |-> 70, method |-> "hc",
   mc |-> 1000, true_total |-> 400, false_total |-> 600,
   dsep_share |-> [num |-> 2, den |-> 5], TP |-> 0, TN |-> 1000, FP |-> 0,
   FN |-> 0, TP_rate |-> Undefined, TN_rate |-> [num |-> 1, den |-> 1],
   FP_rate |-> [num |-> 0, den |-> 1], FN_rate |-> Undefined,
   precision |-> Undefined, recall |-> Undefined, F1 |-> Undefined]

NoCsv == [exists |-> FALSE, rows |-> <<>>]
PriorCsv == [exists |-> TRUE, rows |-> <<PriorRow>>]
CsvFiles == {NoCsv, PriorCsv}

\* pd.read_csv(path)
ReadCsv(file) ==
  IF file.exists THEN Ok(file.rows) ELSE Raise("FileNotFoundError", <<>>)

\* try: read_csv ... except: pd.DataFrame(columns=col_names)
LoadEvaluation(file) ==
  LET r == ReadCsv(file) IN IF r.err = "" THEN r.val ELSE <<>>

(***************************************************************************)
(* nx.d_separated(G, x, y, z), as networkx computes it: prune the leaves   *)
(* outside x | y | z until none is left, drop the edges leaving z, and     *)
(* report whether x and y lie in different weakly connected components.    *)
(***************************************************************************)
RECURSIVE PruneLeaves(_, _, _)
PruneLeaves(nodes, edges, keep) ==
  LET leaves == {v \in nodes \ keep : ~\E e \in edges : e[1] = v}
  IN  IF leaves = {} THEN [nodes |-> nodes, edges |-> edges]
      ELSE PruneLeaves(nodes \ leaves,
                       {e \in edges : e[2] \notin leaves}, keep)

RECURSIVE Component(_, _)
Component(seen, edges) ==
  LET more == {v \in {e[1] : e \in edges} \cup {e[2] : e \in edges} :
                 /\ v \notin seen
                 /\ \E e \in edges : \/ e[1] = v /\ e[2] \in seen
                                     \/ e[2] = v /\ e[1] \in seen}
  IN  IF more = {} THEN seen ELSE Component(seen \cup more, edges)

d_separated(G, x, y, z) ==
  LET union_xyz == x \cup y \cup z
      pruned == PruneLeaves(SetOf(G.nodes), G.edges, union_xyz)
      kept == {e \in pruned.edges : e[1] \notin z}
  IN  IF ~(union_xyz \subseteq SetOf(G.nodes)) THEN Raise("NodeNotFound", FALSE)
      ELSE Ok(Component(x, kept) \cap y = {})

(***************************************************************************)
(* The cardinality weights, lines 84-86.  A weight is kept as the exact    *)
(* fraction num / den.                                                     *)
(***************************************************************************)
\* sp.comb(N, kk): the binomial coefficient, by the multiplicative rule.
RECURSIVE comb(_, _)
comb(N, kk) ==
  IF kk < 0 \/ kk > N THEN 0
  ELSE IF kk = 0 THEN 1
  ELSE (comb(N, kk - 1) * (N - kk + 1)) \div kk

\* The weight computed over n, not n - 1, potential deconfounders.
ProbEntryOverN(nn, ii) == [num |-> comb(nn, ii), den |-> 2 ^ (nn - 1)]

\* (sp.comb(n - 1, i)) / (2 ** (n - 1))
ProbEntry(nn, ii) == [num |-> comb(nn - 1, ii), den |-> 2 ^ (nn - 1)]

RECURSIVE SumNum(_)
SumNum(ps) == IF ps = <<>> THEN 0 ELSE Head(ps).num + SumNum(Tail(ps))

\* The weights have one denominator, so they sum to 1 iff the numerators
\* sum to it.
SumsToOne(ps) == ps # <<>> /\ \A j \in 1..Len(ps) : SumNum(ps) = ps[j].den

(***************************************************************************)
(* The random sources.  A call yields any value the library may return for *)
(* its arguments, or the exception it raises for them.                     *)
(***************************************************************************)
\* random.randint(a, b) with the upper end one too far.
RandIntBeyond(a, b) ==
  IF a > b + 1 THEN {Raise("ValueError", 0)} ELSE {Ok(v) : v \in a..(b + 1)}

\* random.randint(a, b): an integer of [a, b], both ends included.
RandInt(a, b) ==
  IF a > b THEN {Raise("ValueError", 0)} ELSE {Ok(v) : v \in a..b}

\* np.random.choice(np.arange(nn), p): a value of positive weight; numpy
\* refuses weights of another length or that do not sum to 1.
NpChoice(nn, p) ==
  IF Len(p) # nn \/ ~SumsToOne(p) THEN {Raise("ValueError", 0)}
  ELSE {Ok(c) : c \in {v \in 0..(nn - 1) : p[v + 1].num > 0}}

\* rng.choice(pop, size, replace=True): the indices may repeat.
RngChoiceReplace(pop, size) ==
  IF pop <= 0 THEN {Raise("ValueError", <<>>)}
  ELSE {Ok(s) : s \in [1..size -> 0..(pop - 1)]}

\* rng.choice(pop, size, replace=False): size distinct indices of range(pop),
\* in the order drawn.
RngChoice(pop, size) ==
  IF size > pop THEN {Raise("ValueError", <<>>)}
  ELSE {Ok(s) : s \in {t \in [1..size -> 0..(pop - 1)] :
                         \A a, b \in 1..size : a # b => t[a] # t[b]}}

(***************************************************************************)
(* State: the module-level names of the script, the position of the        *)
(* running for loop (it), the number of calls made on each random source   *)
(* since it was seeded, and the exception that ended the run, if any.      *)
(***************************************************************************)
VARIABLES target, g_true, g_est, d, n, predictors, deconfounders, probs,
          k, ind, node, card, indices, cond_set, d_seps_true, d_seps_est,
          tp, tn, fp, fn, i, it, d_separated_total, d_connected_total,
          random_pos, np_pos, rng_pos, pc, error, results_csv,
          graph_evaluation, run2

runvars == <<target, g_true, g_est, d, n, predictors, deconfounders, probs,
             k, ind, node, card, indices, cond_set, d_seps_true, d_seps_est,
             tp, tn, fp, fn, i, it, d_separated_total, d_connected_total,
             random_pos, np_pos, rng_pos, pc, error, results_csv,
             graph_evaluation>>
vars == <<runvars, run2>>

\* The state of the run as one record, and the assignment of one.
Cur ==
  [target |-> target, g_true |-> g_true, g_est |-> g_est, d |-> d, n |-> n,
   predictors |-> predictors, deconfounders |-> deconfounders,
   probs |-> probs, k |-> k, ind |-> ind, node |-> node, card |-> card,
   indices |-> indices, cond_set |-> cond_set, d_seps_true |-> d_seps_true,
   d_seps_est |-> d_seps_est, tp |-> tp, tn |-> tn, fp |-> fp, fn |-> fn,
   i |-> i, it |-> it, d_separated_total |-> d_separated_total,
   d_connected_total |-> d_connected_total, random_pos |-> random_pos,
   np_pos |-> np_pos, rng_pos |-> rng_pos, pc |-> pc, error |-> error,
   results_csv |-> results_csv, graph_evaluation |-> graph_evaluation]

Assign(r) ==
  /\ target' = r.target /\ g_true' = r.g_true /\ g_est' = r.g_est
  /\ d' = r.d /\ n' = r.n /\ predictors' = r.predictors
  /\ deconfounders' = r.deconfounders /\ probs' = r.probs /\ k' = r.k
  /\ ind' = r.ind /\ node' = r.node /\ card' = r.card
  /\ indices' = r.indices /\ cond_set' = r.cond_set
  /\ d_seps_true' = r.d_seps_true /\ d_seps_est' = r.d_seps_est
  /\ tp' = r.tp /\ tn' = r.tn /\ fp' = r.fp /\ fn' = r.fn
  /\ i' = r.i /\ it' = r.it
  /\ d_separated_total' = r.d_separated_total
  /\ d_connected_total' = r.d_connected_total
  /\ random_pos' = r.random_pos /\ np_pos' = r.np_pos
  /\ rng_pos' = r.rng_pos /\ pc' = r.pc /\ error' = r.error
  /\ results_csv' = r.results_csv
  /\ graph_evaluation' = r.graph_evaluation

\* Lines 40-61: the table read or created, the arguments parsed and both
\* graphs loaded; no other name is bound yet (-1, "", <<>> and {} stand for
\* an unbound name).
Loaded(t, gt, ge, csv) ==
  [target |-> t, g_true |-> gt, g_est |-> ge, d |-> Len(gt.nodes),
   n |-> Len(gt.nodes) - 1, predictors |-> <<>>, deconfounders |-> <<>>,
   probs |-> <<>>, k |-> -1, ind |-> -1, node |-> "", card |-> -1,
   indices |-> <<>>, cond_set |-> {}, d_seps_true |-> <<>>,
   d_seps_est |-> <<>>, tp |-> -1, tn |-> -1, fp |-> -1, fn |-> -1,
   i |-> -1, it |-> 0, d_separated_total |-> -1, d_connected_total |-> -1,
   random_pos |-> -1, np_pos |-> -1, rng_pos |-> -1, pc |-> "setup",
   error |-> "", results_csv |-> csv,
   graph_evaluation |-> LoadEvaluation(csv)]

\* An uncaught exception ends the script.
Abort(run, e) == [run EXCEPT !.pc = "aborted", !.error = e]

(***************************************************************************)
(* Lines 63-80: the predictor list, the seeds, the empty verdict lists.    *)
(***************************************************************************)
SetupResult(run) ==
  LET sorted == SortList(run.g_true.nodes)
  IN  IF run.target \notin SetOf(sorted)
      THEN Abort([run EXCEPT !.predictors = sorted], "ValueError")
      ELSE [run EXCEPT !.predictors = Remove(sorted, run.target),
                       !.random_pos = 0, !.np_pos = 0, !.rng_pos = 0,
                       !.d_seps_true = <<>>, !.d_seps_est = <<>>,
                       !.probs = <<>>, !.it = 0, !.pc = "probs"]

(***************************************************************************)
(* Lines 84-87: for i in range(n): probs.append(...); then k = 0.          *)
(***************************************************************************)
\* range(n): the number of weights the loop appends.
ProbsRange(run) == run.n

ProbsStepResult(run) ==
  [run EXCEPT !.i = run.it, !.it = run.it + 1,
              !.probs = Append(@, ProbEntry(run.n, run.it))]

ProbsExitResult(run) == [run EXCEPT !.k = 0, !.pc = "sample"]

\* Line 88 with the test one too wide: while k <= mc.
WhileCondInclusive(run) == run.k <= mc

\* Line 88: while k < mc
WhileCond(run) == run.k < mc

(***************************************************************************)
(* Lines 89-121: one trial.  r_ind, r_card and r_idx are the outcomes of   *)
(* the three random calls of the trial.                                    *)
(***************************************************************************)
\* Lines 105-120 with the estimated graph tested without the conditioning
\* set.
VerdictsResultUnpaired(run) ==
  LET vt == d_separated(run.g_true, {run.node}, {run.target}, run.cond_set)
      ve == d_separated(run.g_est, {run.node}, {run.target}, {})
  IN  IF vt.err # "" THEN Abort(run, vt.err)
      ELSE IF ve.err # ""
      THEN Abort([run EXCEPT !.d_seps_true = Append(@, vt.val)], ve.err)
      ELSE [run EXCEPT !.d_seps_true = Append(@, vt.val),
                       !.d_seps_est = Append(@, ve.val),
                       !.k = @ + 1]

\* Lines 105-120 with a failed lookup on g_est swallowed: the trial is
\* skipped and the loop goes on.
VerdictsResultSkipping(run) ==
  LET vt == d_separated(run.g_true, {run.node}, {run.target}, run.cond_set)
      ve == d_separated(run.g_est, {run.node}, {run.target}, run.cond_set)
  IN  IF vt.err # "" \/ ve.err # "" THEN [run EXCEPT !.k = @ + 1]
      ELSE [run EXCEPT !.d_seps_true = Append(@, vt.val),
                       !.d_seps_est = Append(@, ve.val),
                       !.k = @ + 1]

\* Lines 105-120: the same (node, target, cond_set) tested on both graphs,
\* the true graph first; each verdict is appended as soon as it is known.
VerdictsResult(run) ==
  LET vt == d_separated(run.g_true, {run.node}, {run.target}, run.cond_set)
      ve == d_separated(run.g_est, {run.node}, {run.target}, run.cond_set)
  IN  IF vt.err # "" THEN Abort(run, vt.err)
      ELSE IF ve.err # ""
      THEN Abort([run EXCEPT !.d_seps_true = Append(@, vt.val)], ve.err)
      ELSE [run EXCEPT !.d_seps_true = Append(@, vt.val),
                       !.d_seps_est = Append(@, ve.val),
                       !.k = @ + 1]

\* Lines 113-118: the conditioning set of the drawn indices.
CondSetResult(run, r_idx) ==
  LET s5 == [run EXCEPT !.rng_pos = @ + 1]
      s6 == [s5 EXCEPT !.indices = r_idx.val]
      valid == {j \in 1..Len(r_idx.val) :
                  \A h \in 1..j : r_idx.val[h] < Len(run.deconfounders)}
  IN  IF r_idx.err # "" THEN Abort(s5, r_idx.err)
      ELSE IF valid # 1..Len(r_idx.val)
      THEN Abort([s6 EXCEPT !.cond_set =
                     {run.deconfounders[r_idx.val[j] + 1] : j \in valid}],
                 "IndexError")
      ELSE VerdictsResult(
             [s6 EXCEPT !.cond_set =
                {run.deconfounders[r_idx.val[j] + 1] : j \in valid}])

\* Lines 99-100 with the chosen predictor left in the list.
DeconfoundersKeepNode(preds, nd) == preds

\* Lines 99-100: deconfounders is the predictor list itself, less the node.
Deconfounders(preds, nd) == Remove(preds, nd)

\* Lines 89-93 left out: the trial goes on with the list as the trial
\* before left it.
RebuildSkipped(run) == run.predictors

\* Lines 89-93: the predictor list built anew from the true graph.
Rebuild(run) == Remove(SortList(run.g_true.nodes), run.target)

TrialResult(run, r_ind, r_card, r_idx) ==
  LET sorted == SortList(run.g_true.nodes)
      P0 == Rebuild(run)
      s1 == [run EXCEPT !.predictors = P0, !.random_pos = @ + 1]
      s2 == [s1 EXCEPT !.ind = r_ind.val]
      nd == P0[r_ind.val + 1]
      D0 == Deconfounders(P0, nd)
      s3 == [s2 EXCEPT !.node = nd, !.predictors = D0, !.deconfounders = D0,
                       !.np_pos = @ + 1]
      s4 == [s3 EXCEPT !.card = r_card.val]
  IN  IF run.target \notin SetOf(sorted)
      THEN Abort([run EXCEPT !.predictors = sorted], "ValueError")
      ELSE IF r_ind.err # "" THEN Abort(s1, r_ind.err)
      ELSE IF r_ind.val >= Len(P0) THEN Abort(s2, "IndexError")
      ELSE IF r_card.err # "" THEN Abort(s3, r_card.err)
      ELSE IF r_card.val = 0
      THEN VerdictsResult([s4 EXCEPT !.cond_set = {}])
      ELSE CondSetResult(s4, r_idx)

\* The outcomes the three calls of one trial may have.
NoDraw == Ok(<<>>)
IdxDraws(run, r_card) ==
  IF r_card.err = "" /\ r_card.val # 0
  THEN RngChoice(run.n - 1, r_card.val) ELSE {NoDraw}

(***************************************************************************)
(* Lines 123-141: the counters, the counting loop, the totals.             *)
(***************************************************************************)
SampleExitResult(run) ==
  [run EXCEPT !.tp = 0, !.tn = 0, !.fp = 0, !.fn = 0, !.it = 0,
              !.pc = "count"]

\* Line 129 with the comparison turned around.
AgreeNegated(run, idx) == run.d_seps_true[idx + 1] # run.d_seps_est[idx + 1]

\* Line 129: d_seps_true[i] == d_seps_est[i]
Agree(run, idx) == run.d_seps_true[idx + 1] = run.d_seps_est[idx + 1]

\* Lines 130 and 135 testing the verdict of trial i: d_seps_true[i] is True.
TrueIsTrueIndexed(run, idx) ==
  PyIs(PyBool(run.d_seps_true[idx + 1]), PyBool(TRUE))

\* Lines 130 and 135 with the test turned around ("is not True").
TrueIsNotTrue(run, idx) == ~PyIs(PyList(run.d_seps_true), PyBool(TRUE))

\* Lines 130 and 135: d_seps_true is True (the list, not its entry i).
TrueIsTrue(run, idx) == PyIs(PyList(run.d_seps_true), PyBool(TRUE))

\* A counting step that counts a disagreeing trial in both remaining
\* counters.
CountStepBoth(run) ==
  LET s == [run EXCEPT !.i = run.it, !.it = run.it + 1]
  IN  IF Agree(run, run.it) THEN [s EXCEPT !.tn = @ + 1]
      ELSE [s EXCEPT !.fp = @ + 1, !.fn = @ + 1]

\* A counting step that drops the disagreeing trials.
CountStepDropping(run) ==
  LET s == [run EXCEPT !.i = run.it, !.it = run.it + 1]
  IN  IF Agree(run, run.it) THEN [s EXCEPT !.tn = @ + 1] ELSE s

CountStepResult(run) ==
  LET idx == run.it
      s == [run EXCEPT !.i = idx, !.it = idx + 1]
  IN  IF idx >= Len(run.d_seps_est) THEN Abort(s, "IndexError")
      ELSE IF Agree(run, idx)
      THEN IF TrueIsTrue(run, idx) THEN [s EXCEPT !.tp = @ + 1]
           ELSE [s EXCEPT !.tn = @ + 1]
      ELSE IF TrueIsTrue(run, idx) THEN [s EXCEPT !.fn = @ + 1]
           ELSE [s EXCEPT !.fp = @ + 1]

CountExitResult(run) ==
  [run EXCEPT !.d_separated_total = run.tp + run.fn,
              !.d_connected_total = run.tn + run.fp,
              !.pc = "done"]

(***************************************************************************)
(* The run                                                                 *)
(***************************************************************************)
NoRun == [pc |-> "none"]

\* The run starts in state r.
Start(r) ==
  /\ target = r.target /\ g_true = r.g_true /\ g_est = r.g_est
  /\ d = r.d /\ n = r.n /\ predictors = r.predictors
  /\ deconfounders = r.deconfounders /\ probs = r.probs /\ k = r.k
  /\ ind = r.ind /\ node = r.node /\ card = r.card
  /\ indices = r.indices /\ cond_set = r.cond_set
  /\ d_seps_true = r.d_seps_true /\ d_seps_est = r.d_seps_est
  /\ tp = r.tp /\ tn = r.tn /\ fp = r.fp /\ fn = r.fn
  /\ i = r.i /\ it = r.it
  /\ d_separated_total = r.d_separated_total
  /\ d_connected_total = r.d_connected_total
  /\ random_pos = r.random_pos /\ np_pos = r.np_pos
  /\ rng_pos = r.rng_pos /\ pc = r.pc /\ error = r.error
  /\ results_csv = r.results_csv
  /\ graph_evaluation = r.graph_evaluation

Init ==
  /\ \E t \in Targets, gt \in Graphs, ge \in Graphs, csv \in CsvFiles :
       Start(Loaded(t, gt, ge, csv))
  /\ run2 = NoRun

\* The steps of one run, by the place the script is at.
SetupRun ==
  /\ pc = "setup"
  /\ Assign(SetupResult(Cur))

ProbsStepRun ==
  /\ pc = "probs"
  /\ it < ProbsRange(Cur)
  /\ Assign(ProbsStepResult(Cur))

ProbsExitRun ==
  /\ pc = "probs"
  /\ it >= ProbsRange(Cur)
  /\ Assign(ProbsExitResult(Cur))

SampleExitRun ==
  /\ pc = "sample"
  /\ ~WhileCond(Cur)
  /\ Assign(SampleExitResult(Cur))

CountStepRun ==
  /\ pc = "count"
  /\ it < Len(d_seps_true)
  /\ Assign(CountStepResult(Cur))

CountExitRun ==
  /\ pc = "count"
  /\ it >= Len(d_seps_true)
  /\ Assign(CountExitResult(Cur))

Setup == SetupRun /\ UNCHANGED run2

ProbsStep == ProbsStepRun /\ UNCHANGED run2

ProbsExit == ProbsExitRun /\ UNCHANGED run2

Trial ==
  /\ pc = "sample"
  /\ WhileCond(Cur)
  /\ \E r_ind \in RandInt(0, n - 1), r_card \in NpChoice(n, probs) :
       \E r_idx \in IdxDraws(Cur, r_card) :
         Assign(TrialResult(Cur, r_ind, r_card, r_idx))
  /\ UNCHANGED run2

SampleExit == SampleExitRun /\ UNCHANGED run2

CountStep == CountStepRun /\ UNCHANGED run2

CountExit == CountExitRun /\ UNCHANGED run2

Next ==
  \/ Setup
  \/ ProbsStep
  \/ ProbsExit
  \/ Trial
  \/ SampleExit
  \/ CountStep
  \/ CountExit

Spec == Init /\ [][Next]_vars

(***************************************************************************)
(* The weight loop on its own, for every number of predictors up to MaxN:  *)
(* the state after line 80 of a run on an edgeless graph of n + 1 nodes.   *)
(***************************************************************************)
NodeNames(m) == [j \in 1..m |-> ToString(j)]

AfterSetup(m) ==
  LET g == Graph(NodeNames(m + 1), {})
  IN  [Loaded("1", g, g, NoCsv) EXCEPT !.predictors = Tail(g.nodes),
                                !.random_pos = 0, !.np_pos = 0,
                                !.rng_pos = 0, !.pc = "probs"]

InitProbs ==
  /\ \E m \in 1..MaxN : Start(AfterSetup(m))
  /\ run2 = NoRun

NextProbs ==
  \/ ProbsStep
  \/ ProbsExit

SpecProbs == InitProbs /\ [][NextProbs]_vars

(***************************************************************************)
(* Two runs of the script on one seed.  The first run is the state above,  *)
(* the second is run2; it loads the same graphs, pickled with their nodes  *)
(* inserted in the opposite order.  Both runs seed the three               *)
(* sources alike (lines 73-75), so call number j on a source returns in    *)
(* the second run what it returned in the first, provided it is made with  *)
(* the same arguments; any other call may return anything.                 *)
(***************************************************************************)
RECURSIVE Reverse(_)
Reverse(list) ==
  IF list = <<>> THEN <<>> ELSE Append(Reverse(Tail(list)), Head(list))

Reordered(g) == Graph(Reverse(g.nodes), g.edges)

SameStream(same, r1, others) == IF same THEN {r1} ELSE others

\* One step of a run from wherever it is; a finished run stays.
StepResult(run, r_ind, r_card, r_idx) ==
  CASE run.pc = "setup" -> SetupResult(run)
    [] run.pc = "probs" ->
         IF run.it < ProbsRange(run) THEN ProbsStepResult(run)
         ELSE ProbsExitResult(run)
    [] run.pc = "sample" ->
         IF WhileCond(run) THEN TrialResult(run, r_ind, r_card, r_idx)
         ELSE SampleExitResult(run)
    [] run.pc = "count" ->
         IF run.it < Len(run.d_seps_true) THEN CountStepResult(run)
         ELSE CountExitResult(run)
    [] OTHER -> run

Sampling(run) == run.pc = "sample" /\ WhileCond(run)

\* A step of the second run that makes no random call.
Run2Step ==
  run2' = IF Sampling(run2) THEN run2
          ELSE StepResult(run2, Ok(0), Ok(0), NoDraw)

\* A trial of the second run beside a trial of the first that drew
\* r_ind, r_card and r_idx.
Run2Trial(r_ind, r_card, r_idx) ==
  IF ~Sampling(run2) THEN Run2Step
  ELSE
    \E q_ind \in SameStream(run2.random_pos = random_pos /\ run2.n = n,
                            r_ind, RandInt(0, run2.n - 1)),
       q_card \in SameStream(/\ run2.np_pos = np_pos
                             /\ run2.n = n /\ run2.probs = probs,
                             r_card, NpChoice(run2.n, run2.probs)) :
      \E q_idx \in SameStream(/\ run2.rng_pos = rng_pos
                              /\ run2.n = n /\ q_card = r_card,
                              r_idx, IdxDraws(run2, q_card)) :
        run2' = TrialResult(run2, q_ind, q_card, q_idx)

InitDet ==
  \E t \in Targets, gt \in Graphs, ge \in Graphs :
    /\ Start(Loaded(t, gt, ge, NoCsv))
    /\ run2 = Loaded(t, Reordered(gt), Reordered(ge), NoCsv)

DetSetup == SetupRun /\ Run2Step

DetProbsStep == ProbsStepRun /\ Run2Step

DetProbsExit == ProbsExitRun /\ Run2Step

DetTrial ==
  /\ pc = "sample"
  /\ WhileCond(Cur)
  /\ \E r_ind \in RandInt(0, n - 1), r_card \in NpChoice(n, probs) :
       \E r_idx \in IdxDraws(Cur, r_card) :
         /\ Assign(TrialResult(Cur, r_ind, r_card, r_idx))
         /\ Run2Trial(r_ind, r_card, r_idx)

DetSampleExit == SampleExitRun /\ Run2Step

DetCountStep == CountStepRun /\ Run2Step

DetCountExit == CountExitRun /\ Run2Step

NextDet ==
  \/ DetSetup
  \/ DetProbsStep
  \/ DetProbsExit
  \/ DetTrial
  \/ DetSampleExit
  \/ DetCountStep
  \/ DetCountExit

SpecDet == InitDet /\ [][NextDet]_vars

(***************************************************************************)
(* Properties                                                              *)
(***************************************************************************)
SameNodes == SetOf(g_true.nodes) = SetOf(g_est.nodes)

\* The number of the first upto trials with the given pair of verdicts.
CountPairs(tv, ev, upto) ==
  Cardinality({j \in 1..upto : d_seps_true[j] = tv /\ d_seps_est[j] = ev})

\* A trial has been sampled in full and its values are still bound.
Sampled == pc \in {"sample", "count", "done"} /\ k >= 1

\* C1: in every completed run the four counters sum to the trial budget,
\* and so do the two totals derived from them.
C1_CountersSumToBudget ==
  pc = "done" =>
    /\ tp + tn + fp + fn = mc
    /\ d_separated_total + d_connected_total = mc

C1_Witness ==
  /\ pc = "done" /\ SameNodes /\ g_true # g_est
  /\ tn > 0 /\ fp > 0 /\ Len(d_seps_true) = mc

\* C2: every counted trial falls in the bucket of its pair of verdicts:
\* TP counts the trials both graphs call separated, TN those both call
\* connected, FN those only the true graph calls separated, FP those only
\* the estimated graph calls separated.
C2_CountersFollowVerdicts ==
  pc \in {"count", "done"} =>
    /\ tp = CountPairs(TRUE, TRUE, it)
    /\ tn = CountPairs(FALSE, FALSE, it)
    /\ fn = CountPairs(TRUE, FALSE, it)
    /\ fp = CountPairs(FALSE, TRUE, it)

\* C3: a run that is given one graph as both the true and the estimated
\* graph ends with FP = 0, FN = 0 and TP + TN equal to the trial budget.
C3_SameGraphNoErrors ==
  (pc = "done" /\ g_true = g_est) =>
    /\ fp = 0 /\ fn = 0
    /\ tp + tn = mc

C3_Witness ==
  /\ pc = "done" /\ g_true = g_est
  /\ TRUE \in SetOf(d_seps_true) /\ FALSE \in SetOf(d_seps_true)

\* The last trial sampled predictor A for target D with the empty
\* conditioning set, on a true graph with the edge A -> D and an estimated
\* graph without it that separates A from D, and is the next to be counted.
C4_Case ==
  /\ pc = "count" /\ it = k - 1
  /\ target = "D" /\ node = "A" /\ cond_set = {}
  /\ <<"A", "D">> \in g_true.edges /\ <<"A", "D">> \notin g_est.edges
  /\ d_seps_true[k] = FALSE /\ d_seps_est[k] = TRUE

\* C4 as claimed: that trial is counted as FN, and in no other counter.
C4_CountedAsFN ==
  [][C4_Case => /\ fn' = fn + 1
                /\ tp' = tp /\ tn' = tn /\ fp' = fp]_vars

\* C4 as amended: that trial is counted as FP, and in no other counter.
C4_CountedAsFP ==
  [][C4_Case => /\ fp' = fp + 1
                /\ tp' = tp /\ tn' = tn /\ fn' = fn]_vars

C4_Witness ==
  /\ pc = "count" /\ it = k /\ i = k - 1
  /\ target = "D" /\ node = "A" /\ cond_set = {}
  /\ <<"A", "D">> \in g_true.edges /\ <<"A", "D">> \notin g_est.edges
  /\ d_seps_true[k] = FALSE /\ d_seps_est[k] = TRUE
  /\ fp >= 1

\* C5: on the chain A -> B -> C -> D with target D, given as both graphs,
\* every run ends with FP = 0 and FN = 0, and when TP + FN > 0 precision
\* TP / (TP + FP) and recall TP / (TP + FN) are both 1.
C5_Chain ==
  (pc = "done" /\ g_true = g_est /\ g_true.edges = Chain4 /\ target = "D") =>
    /\ fp = 0 /\ fn = 0
    /\ d_separated_total > 0 =>
         /\ tp + fp # 0 /\ tp = tp + fp
         /\ tp + fn # 0 /\ tp = tp + fn

C5_Witness ==
  /\ pc = "done" /\ g_true = g_est /\ g_true.edges = Chain4 /\ target = "D"
  /\ TRUE \in SetOf(d_seps_true)
  /\ fp = 0 /\ fn = 0

\* C6: in every trial the conditioning set holds neither the predictor nor
\* the target and lies within the true graph's nodes, and the predictor is
\* a node other than the target.
C6_CondSetDisjoint ==
  Sampled =>
    /\ node \notin cond_set /\ target \notin cond_set
    /\ cond_set \subseteq SetOf(g_true.nodes)
    /\ node \in SetOf(g_true.nodes) /\ node # target

C6_Witness == Sampled /\ Cardinality(cond_set) = 2

\* C7: in every trial 0 <= card <= n - 1, the deconfounder list has n - 1
\* entries, every drawn index is a position of it (no lookup ever fails),
\* and the conditioning set has exactly card members.
C7_CardAndIndices ==
  /\ error # "IndexError"
  /\ Sampled =>
       /\ card \in 0..(n - 1)
       /\ Len(deconfounders) = n - 1
       /\ Cardinality(cond_set) = card
       /\ card > 0 =>
            /\ Len(indices) = card
            /\ \A j \in 1..Len(indices) :
                 indices[j] \in 0..(Len(deconfounders) - 1)

C7_Witness == Sampled /\ card = 2 /\ Cardinality(cond_set) = 2 /\ n = 3

\* C8: for every n >= 1 the loop leaves exactly n weights, one per size
\* 0..n-1, all over 2^(n-1), whose numerators sum to 2^(n-1).
C8_ProbsSumToOne ==
  pc # "probs" =>
    /\ Len(probs) = n
    /\ \A j \in 1..Len(probs) : probs[j].den = 2 ^ (n - 1)
    /\ SumNum(probs) = 2 ^ (n - 1)

C8_Witness == pc # "probs" /\ n = MaxN /\ Len(probs) = n

\* C9: with one predictor the weights are the single weight 1, the
\* predictor index is always 0, every conditioning set is empty and the
\* seeded generator is never asked for indices.
C9_SinglePredictor ==
  n = 1 =>
    /\ pc \in {"sample", "count", "done"} => probs = <<[num |-> 1, den |-> 1]>>
    /\ ind \in {-1, 0}
    /\ card \in {-1, 0}
    /\ cond_set = {}
    /\ rng_pos \in {-1, 0}
    /\ error # "IndexError"

C9_Witness == n = 1 /\ pc = "done" /\ ind = 0 /\ card = 0 /\ k = mc

\* C10: two runs on one seed, the same graphs (whatever the insertion
\* order of their nodes), the same target and the same budget are at the
\* same place after every step, have made the same number of calls on each
\* random source, have sampled the same predictor and conditioning set, and
\* end with the same four counters.
C10_Determinism ==
  /\ run2.pc = pc /\ run2.k = k /\ run2.error = error
  /\ run2.random_pos = random_pos
  /\ run2.np_pos = np_pos
  /\ run2.rng_pos = rng_pos
  /\ run2.node = node /\ run2.cond_set = cond_set
  /\ run2.d_seps_true = d_seps_true /\ run2.d_seps_est = d_seps_est
  /\ pc = "done" =>
       /\ run2.tp = tp /\ run2.tn = tn
       /\ run2.fp = fp /\ run2.fn = fn

C10_Witness ==
  /\ pc = "done" /\ run2.pc = "done"
  /\ run2.g_true.nodes # g_true.nodes
  /\ n = 3 /\ rng_pos >= 1 /\ fp >= 1 /\ tn >= 1
  /\ run2.fp = fp

(***************************************************************************)
(* Aborted runs                                                            *)
(***************************************************************************)
\* The nodes the estimated graph is asked about in the trial just run.
Triple(nd, cs) == {nd, target} \cup cs
CountersUnbound ==
  /\ tp = -1 /\ tn = -1 /\ fp = -1 /\ fn = -1
  /\ d_separated_total = -1 /\ d_connected_total = -1
TableUntouched ==
  /\ results_csv' = results_csv
  /\ graph_evaluation' = graph_evaluation

\* Setup with the target missing from the true graph: line 67 raises.
AbortAtRemove ==
  (pc = "setup" /\ target \notin SetOf(g_true.nodes))
    => /\ pc' = "aborted" /\ error' = "ValueError"
       /\ k' = -1 /\ d_seps_true' = <<>> /\ d_seps_est' = <<>>
       /\ CountersUnbound' /\ TableUntouched

\* A trial whose triple has a node missing from the estimated graph: the
\* call on g_est raises; trueGrows says whether the true-graph verdict of
\* that trial has been appended by then.
AbortAtLookup(trueGrows) ==
  (/\ pc = "sample" /\ WhileCond(Cur)
   /\ ~(Triple(node', cond_set') \subseteq SetOf(g_est.nodes)))
    => /\ pc' = "aborted" /\ error' = "NodeNotFound"
       /\ k' = k /\ d_seps_est' = d_seps_est
       /\ Len(d_seps_true') = Len(d_seps_true) + (IF trueGrows THEN 1 ELSE 0)
       /\ \A j \in 1..Len(d_seps_true) : d_seps_true'[j] = d_seps_true[j]
       /\ CountersUnbound' /\ TableUntouched

\* C11 (as stated): a missing node aborts the run with a lookup error at
\* that point, the trial is not skipped, no verdict at all is recorded for
\* it, no counter is derived and no table row is written.
C11_NoVerdictRecorded == [][AbortAtRemove /\ AbortAtLookup(FALSE)]_vars

\* C11 (amended): a missing node aborts the run with a lookup error at
\* that point (ValueError at line 67, NodeNotFound at line 109/120); the
\* trial is not skipped (k stays), no estimated-graph verdict is recorded
\* for it, no counter is derived and no table row is written, but the
\* true-graph verdict of the aborted trial is already appended.
C11_AbortsOnMissingNode == [][AbortAtRemove /\ AbortAtLookup(TRUE)]_vars

\* A run aborted in its second trial or later by a node the estimated
\* graph lacks, one true-graph verdict ahead of the estimated ones.
C11_Witness ==
  /\ pc = "aborted" /\ error = "NodeNotFound"
  /\ k >= 1 /\ Len(d_seps_est) = k /\ Len(d_seps_true) = k + 1
  /\ ~(Triple(node, cond_set) \subseteq SetOf(g_est.nodes))

(***************************************************************************)
(* The end of a run: metrics and the evaluation table                      *)
(***************************************************************************)
\* a / b, or the undefined marker when b is zero.
Ratio(a, b) == IF b = 0 THEN Undefined ELSE [num |-> a, den |-> b]
HarmonicMean(p, r) ==
  IF p = Undefined \/ r = Undefined THEN Undefined
  ELSE Ratio(2 * p.num * r.num, p.num * r.den + r.num * p.den)
\* row is the output row of this run, with every derived metric either the
\* quotient of the counters or the undefined marker.
IsOutputRow(row) ==
  /\ row.target_node = target /\ row.d = d /\ row.mc = mc
  /\ row.TP = tp /\ row.TN = tn /\ row.FP = fp /\ row.FN = fn
  /\ row.precision = Ratio(tp, tp + fp)
  /\ row.recall = Ratio(tp, tp + fn)
  /\ row.F1 = HarmonicMean(row.precision, row.recall)
  /\ row.TP_rate = Ratio(tp, tp + fn) /\ row.FN_rate = Ratio(fn, tp + fn)
  /\ row.TN_rate = Ratio(tn, tn + fp) /\ row.FP_rate = Ratio(fp, tn + fp)

\* C12: once the trial budget is exhausted and the run has finished, the
\* table holds this run's output row with precision, recall, F1 and the
\* four rates, every metric with a zero denominator being the undefined
\* marker (the run does not abort on it).
C12_MetricsInOutputRow ==
  pc = "done" =>
    /\ error = ""
    /\ Len(graph_evaluation) >= 1
    /\ IsOutputRow(graph_evaluation[Len(graph_evaluation)])

\* C13: the step that completes a run leaves the table with the rows it was
\* loaded with (none if the file did not exist) plus exactly one row, and
\* the table changes in no step before all mc trials are classified.
C13_OneRowAppended ==
  [][/\ (pc # "done" /\ pc' = "done") =>
          /\ Len(graph_evaluation') = Len(LoadEvaluation(results_csv)) + 1
          /\ \A j \in 1..Len(LoadEvaluation(results_csv)) :
               graph_evaluation'[j] = LoadEvaluation(results_csv)[j]
          /\ results_csv' = [exists |-> TRUE, rows |-> graph_evaluation']
     /\ (graph_evaluation' # graph_evaluation \/ results_csv' # results_csv)
          => (pc = "count" /\ it = mc /\ Len(d_seps_est) = mc)]_vars

(***************************************************************************)
(* The predictor list at the start of a trial                              *)
(***************************************************************************)
IsSorted(l) == \A a, b \in 1..Len(l) : a < b => Rank(l[a]) < Rank(l[b])

\* C14: at the start of every trial the rebuilt predictor list is the
\* sorted node set of the true graph less the target (n entries, no
\* duplicates, target excluded), whatever the trial before removed from the
\* aliased list; the index drawn over [0, n-1] is always in range.
C14_PredictorsRebuilt ==
  /\ (pc = "sample" /\ WhileCond(Cur)) =>
       LET P == Rebuild(Cur)
       IN  /\ Len(P) = n
           /\ SetOf(P) = SetOf(g_true.nodes) \ {target}
           /\ Cardinality(SetOf(P)) = Len(P)
           /\ IsSorted(P)
           /\ RandInt(0, n - 1) \subseteq {Ok(j) : j \in 0..(Len(P) - 1)}
  /\ (pc \in {"sample", "aborted"} /\ k >= 0 /\ ind # -1) =>
       /\ ind \in 0..(n - 1)
       /\ error # "IndexError"

\* A later trial about to start, after the trial before it has removed its
\* predictor from the list through the alias.
C14_Witness ==
  /\ pc = "sample" /\ WhileCond(Cur) /\ k >= 1
  /\ n >= 2
  /\ Len(predictors) = n - 1 /\ node \notin SetOf(predictors)
  /\ node \in SetOf(Rebuild(Cur))

(***************************************************************************)
(* Paired verdicts                                                         *)
(***************************************************************************)
\* The verdict of graph G on the triple of the trial just run.
VerdictOn(G, nd, cs) == d_separated(G, {nd}, {target}, cs).val
BetweenTrials == pc \in {"sample", "count", "done"} /\ k >= 0

\* C15: a trial tests the same (predictor, target, conditioning set) on
\* the true and on the estimated graph and appends the two verdicts
\* together; between trials both verdict lists have length k, and entries
\* already recorded never change, so position i of both lists belongs to
\* the triple of trial i.
C15_PairedVerdicts ==
  [][/\ BetweenTrials' =>
          Len(d_seps_true') = k' /\ Len(d_seps_est') = k'
     /\ (BetweenTrials /\ k' = k + 1) =>
          /\ d_seps_true' =
               Append(d_seps_true, VerdictOn(g_true, node', cond_set'))
          /\ d_seps_est' =
               Append(d_seps_est, VerdictOn(g_est, node', cond_set'))
     /\ (BetweenTrials /\ BetweenTrials' /\ k' = k) =>
          d_seps_true' = d_seps_true /\ d_seps_est' = d_seps_est]_vars

\* After two trials on different graphs, the second with a conditioning
\* set that changes the verdict of the estimated graph, the verdicts of
\* that trial disagree.
C15_Witness ==
  /\ pc = "sample" /\ k = 2
  /\ cond_set # {}
  /\ Len(d_seps_true) = 2 /\ Len(d_seps_est) = 2
  /\ d_seps_true[2] = VerdictOn(g_true, node, cond_set)
  /\ d_seps_est[2] = VerdictOn(g_est, node, cond_set)
  /\ d_seps_true[2] # d_seps_est[2]
  /\ VerdictOn(g_est, node, {}) # VerdictOn(g_est, node, cond_set)

(***************************************************************************)
(* The counters as the source computes them                                *)
(***************************************************************************)
\* The trials classified so far whose verdicts agree / disagree.
Agreeing == {j \in 1..it : d_seps_true[j] = d_seps_est[j]}
Disagreeing == {j \in 1..it : d_seps_true[j] # d_seps_est[j]}

\* C16: the test `d_seps_true is True` never selects the 'separated'
\* branch: TP and FN stay 0, every agreeing trial is counted as TN and
\* every disagreeing trial as FP, and at the end d_separated_total is 0
\* and d_connected_total is mc.
C16_SeparatedBranchDead ==
  /\ pc \in {"count", "done"} =>
       /\ tp = 0 /\ fn = 0
       /\ tn = Cardinality(Agreeing)
       /\ fp = Cardinality(Disagreeing)
       /\ \A j \in 0..(it - 1) : ~TrueIsTrue(Cur, j)
  /\ pc = "done" =>
       /\ it = mc
       /\ d_separated_total = 0 /\ d_connected_total = mc

\* A finished run in which both graphs called one trial separated (counted
\* TN), one trial was called separated by the true graph only and one by
\* the estimated graph only (both counted FP).
C16_Witness ==
  /\ pc = "done" /\ tn >= 1 /\ fp >= 2
  /\ \E j \in 1..mc : d_seps_true[j] /\ d_seps_est[j]
  /\ \E j \in 1..mc : d_seps_true[j] /\ ~d_seps_est[j]
  /\ \E j \in 1..mc : ~d_seps_true[j] /\ d_seps_est[j]

(***************************************************************************)
(* What a step leaves alone                                                *)
(***************************************************************************)
Counters == <<tp, tn, fp, fn>>
InputsUnchanged ==
  UNCHANGED <<target, g_true, g_est, d, n, results_csv, graph_evaluation>>
\* list2 is list1 with one entry appended.
GrowsByOne(list1, list2) ==
  /\ Len(list2) = Len(list1) + 1
  /\ \A j \in 1..Len(list1) : list2[j] = list1[j]

\* One trial: the lists of the trial and the random sources move, each
\* verdict list gets one entry, nothing else changes.
TrialFrame ==
  (pc = "sample" /\ WhileCond(Cur)) =>
    /\ UNCHANGED <<probs, Counters, d_separated_total, d_connected_total>>
    /\ random_pos' = random_pos + 1
    /\ np_pos' = np_pos + 1
    /\ rng_pos' = rng_pos + (IF card' = 0 THEN 0 ELSE 1)
    /\ pc' # "aborted" =>
         /\ GrowsByOne(d_seps_true, d_seps_true')
         /\ GrowsByOne(d_seps_est, d_seps_est')
         /\ k' = k + 1

\* One classified trial: one counter grows by one, the other counters, the
\* verdict lists and the random sources stay.
CountFrame ==
  (pc = "count" /\ pc' = "count") =>
    /\ UNCHANGED <<probs, predictors, deconfounders, d_seps_true, d_seps_est,
                   k, random_pos, np_pos, rng_pos>>
    /\ tp' >= tp /\ tn' >= tn /\ fp' >= fp /\ fn' >= fn
    /\ tp' + tn' + fp' + fn' = tp + tn + fp + fn + 1
    /\ it' = it + 1

\* The totals are derived from the counters, which stay as counted.
TotalsFrame ==
  (pc = "count" /\ pc' = "done") =>
    UNCHANGED <<probs, Counters, d_seps_true, d_seps_est, k,
                random_pos, np_pos, rng_pos>>

\* C17: no step changes the true graph, the estimated graph or n, and once
\* the cardinality distribution is computed no trial or classification
\* step changes it; a trial only rebuilds the predictor/deconfounder list,
\* advances the random sources and appends one verdict to each verdict
\* list; a classification step only increments counters: no counter
\* decreases and exactly one grows by one per classified trial.
C17_Frame ==
  [][InputsUnchanged /\ TrialFrame /\ CountFrame /\ TotalsFrame]_vars

\* A run in classification whose counters have both grown, after trials
\* that shortened the predictor list and used all three random sources.
C17_Witness ==
  /\ pc = "count" /\ it = mc
  /\ tn >= 1 /\ fp >= 1
  /\ rng_pos >= 1 /\ random_pos = mc
  /\ Len(predictors) = n - 1
  /\ Len(probs) = n

(***************************************************************************)
(* Termination                                                             *)
(***************************************************************************)
\* Target in both graphs, at least one predictor, one node set.
Valid ==
  /\ target \in SetOf(g_true.nodes) /\ target \in SetOf(g_est.nodes)
  /\ n >= 1
  /\ SameNodes

\* The runs on valid inputs; the table file, which no statement after
\* line 47 reads, is left out.
InitLive == Init /\ Valid /\ results_csv = NoCsv

\* Line 94: the body of the while loop is entered and random.randint is
\* called.  Every Trial step is such a step, and from the loop head with
\* k < mc no other step of Next is.
TrialEntered ==
  /\ pc = "sample"
  /\ WhileCond(Cur)
  /\ random_pos' = random_pos + 1

\* The script is one sequential process: while a statement is left to run,
\* the interpreter runs it.
SpecLive ==
  /\ InitLive /\ [][Next]_vars
  /\ WF_vars(Setup) /\ WF_vars(ProbsStep) /\ WF_vars(ProbsExit)
  /\ WF_random_pos(TrialEntered)
  /\ WF_vars(SampleExit) /\ WF_vars(CountStep) /\ WF_vars(CountExit)

\* C18: for valid inputs the run terminates; the sampling loop runs
\* exactly mc trials (k grows by one per trial, the loop exits at k = mc),
\* classification starts only after the last trial and takes each recorded
\* pair of verdicts exactly once, and once the totals are derived no step
\* follows: no trial is sampled and no counter changes.
C18_Terminates ==
  /\ [](Valid => <>(pc = "done"))
  /\ [](Valid => pc # "aborted")
  /\ []((pc \in {"count", "done"}) =>
          /\ k = mc
          /\ Len(d_seps_true) = mc /\ Len(d_seps_est) = mc
          /\ random_pos = mc)
  /\ []((pc = "done") => (it = mc /\ tp + tn + fp + fn = mc))
  /\ [][(k >= 0 /\ k' # k) => (pc = "sample" /\ k < mc /\ k' = k + 1)]_vars
  /\ [][(pc = "sample" /\ pc' = "count") => k = mc]_vars
  /\ [][(pc = "count" /\ pc' = "count") =>
          (it < mc /\ i' = it /\ it' = it + 1)]_vars
  /\ [][pc # "done"]_vars

\* A valid run that has finished after mc trials and mc classified pairs.
C18_Witness ==
  /\ Valid /\ pc = "done"
  /\ k = mc /\ it = mc /\ i = mc - 1
  /\ d_connected_total + d_separated_total = mc

====
